---- MODULE Spec2Model ----
(***************************************************************************)
(* A model of commensurability.analysis.AnalysisBase: the constructor      *)
(* (validation, grid shape, backend resolution), the batched image         *)
(* construction loop, and the HDF5 save / read_from_hdf5 pair.             *)
(*                                                                         *)
(* Python values are modelled as follows.                                  *)
(*   - an identifier is a string; its spelling is Chars(name);             *)
(*   - a function object is [name, args, kwonly, body]: what               *)
(*     inspect.getfullargspec and inspect.getsource read from it;          *)
(*   - source text is a sequence of one-character strings followed by one  *)
(*     opaque symbol for the function body;                                *)
(*   - `values` is an ordered mapping: a sequence of <<name, ticks>>;      *)
(*   - a pixel is a 0-based multi-index tuple, as np.ndindex yields it;    *)
(*   - `self` is the instance's attribute dictionary: a function from the  *)
(*     attribute names assigned so far to their values;                    *)
(*   - numbers, quantities, arrays and byte blobs are tagged records.      *)
(***************************************************************************)
EXTENDS Integers, Sequences, FiniteSets, TLC

\* Longest axis (number of tick values) the caller supplies.
MaxLen == 3

-----------------------------------------------------------------------------
(* Tagged values *)

Num(n) == [kind |-> "scalar", num |-> n]

Qty(n, unit) == [kind |-> "quantity", num |-> n, unit |-> unit]

Arr(seq) == [kind |-> "array", arr |-> seq]

QArr(seq, unit) == [kind |-> "qarray", arr |-> seq, unit |-> unit]

Bytes(text) == [kind |-> "bytes", text |-> text]

-----------------------------------------------------------------------------
(* Identifiers and source text *)

\* The spelling of every identifier the model uses.
Chars(s) ==
    CASE s = "d" -> <<"d">>
      [] s = "f" -> <<"f">>
      [] s = "g" -> <<"g">>
      [] s = "k" -> <<"k">>
      [] s = "x" -> <<"x">>
      [] s = "y" -> <<"y">>
      [] s = "dt" -> <<"d", "t">>
      [] s = "ic" -> <<"i", "c">>
      [] s = "pot" -> <<"p", "o", "t">>
      [] s = "ic_function" ->
           <<"i", "c", "_", "f", "u", "n", "c", "t", "i", "o", "n">>
      [] s = "potential_function" ->
           <<"p", "o", "t", "e", "n", "t", "i", "a", "l", "_",
             "f", "u", "n", "c", "t", "i", "o", "n">>

Identifiers ==
    {"d", "f", "g", "k", "x", "y", "dt", "ic", "pot", "ic_function",
     "potential_function"}

\* The identifier spelled by a run of characters ("?" when it is none).
Ident(chars) ==
    IF \E s \in Identifiers : Chars(s) = chars
    THEN CHOOSE s \in Identifiers : Chars(s) = chars
    ELSE "?"

RECURSIVE Join(_, _)
\* sep.join(parts) on character sequences.
Join(parts, sep) ==
    IF parts = <<>> THEN <<>>
    ELSE IF Len(parts) = 1 THEN parts[1]
    ELSE parts[1] \o sep \o Join(Tail(parts), sep)

\* The parameter list as written in a def header: positional names, then,
\* after a bare *, the keyword-only names with their defaults.
ParamText(fn) ==
    Join([i \in 1..Len(fn.args) |-> Chars(fn.args[i])]
         \o (IF fn.kwonly = <<>> THEN <<>>
             ELSE << <<"*">> >> \o
                  [i \in 1..Len(fn.kwonly) |->
                       Chars(fn.kwonly[i]) \o <<"=", "0">>]),
         <<",">>)

\* inspect.getsource(fn): "def name(params):" and the body.
GetSource(fn) ==
    <<"d", "e", "f", " ">> \o Chars(fn.name) \o <<"(">> \o ParamText(fn)
    \o <<")", ":">> \o <<fn.body>>

\* The least index at which `old` occurs in `text`, 0 when it does not.
Find(text, old) ==
    LET hits == {i \in 1..(Len(text) - Len(old) + 1) :
                     SubSeq(text, i, i + Len(old) - 1) = old}
    IN  IF hits = {} THEN 0
        ELSE CHOOSE i \in hits : \A j \in hits : i <= j

\* str.replace(old, new, 1): the first occurrence only.
ReplaceFirst(text, old, new) ==
    LET i == Find(text, old)
    IN  IF i = 0 THEN text
        ELSE SubSeq(text, 1, i - 1) \o new
             \o SubSeq(text, i + Len(old), Len(text))

\* The text save() stores for a function: its source with its own name
\* replaced, once, by the placeholder.
RenamedSource(fn, placeholder) ==
    ReplaceFirst(GetSource(fn), Chars(fn.name), Chars(placeholder))

RECURSIVE Split(_, _)
\* text.split(sep) for a one-character separator.
Split(text, sep) ==
    LET i == Find(text, <<sep>>)
    IN  IF i = 0 THEN <<text>>
        ELSE <<SubSeq(text, 1, i - 1)>>
             \o Split(SubSeq(text, i + 1, Len(text)), sep)

IdentChars ==
    {"a", "c", "d", "e", "f", "g", "i", "k", "l", "n", "o", "p", "t", "u",
     "x", "y", "_"}

IsIdentifier(chars) ==
    chars # <<>> /\ \A i \in 1..Len(chars) : chars[i] \in IdentChars

\* The pieces of a def header "def <name>(<items>):<body>".
HeaderName(text) == SubSeq(text, 5, Find(text, <<"(">>) - 1)

HeaderItems(text) ==
    LET inner == SubSeq(text, Find(text, <<"(">>) + 1,
                        Find(text, <<")">>) - 1)
    IN  IF inner = <<>> THEN <<>> ELSE Split(inner, ",")

\* The items before a bare * are positional parameters.
PositionalItems(items) ==
    IF Find(items, << <<"*">> >>) = 0 THEN items
    ELSE SubSeq(items, 1, Find(items, << <<"*">> >>) - 1)

\* The items after a bare * are keyword-only parameters, "name=0".
KeywordItems(items) ==
    IF Find(items, << <<"*">> >>) = 0 THEN <<>>
    ELSE SubSeq(items, Find(items, << <<"*">> >>) + 1, Len(items))

KeywordName(item) == SubSeq(item, 1, Len(item) - 2)

IsKeywordItem(item) ==
    /\ Len(item) >= 3
    /\ SubSeq(item, Len(item) - 1, Len(item)) = <<"=", "0">>
    /\ IsIdentifier(KeywordName(item))

\* Whether the text compiles: "def <identifier>(<params>):" and the body.
Compiles(text) ==
    /\ Len(text) >= 4
    /\ SubSeq(text, 1, 4) = <<"d", "e", "f", " ">>
    /\ Find(text, <<"(">>) # 0
    /\ Find(text, <<")">>) > Find(text, <<"(">>)
    /\ Len(text) = Find(text, <<")">>) + 2
    /\ text[Find(text, <<")">>) + 1] = ":"
    /\ IsIdentifier(HeaderName(text))
    /\ \A i \in 1..Len(PositionalItems(HeaderItems(text))) :
          IsIdentifier(PositionalItems(HeaderItems(text))[i])
    /\ \A i \in 1..Len(KeywordItems(HeaderItems(text))) :
          IsKeywordItem(KeywordItems(HeaderItems(text))[i])

\* exec(text, ...): the namespace it leaves, as the one function the text
\* defines, or a SyntaxError.
Exec(text) ==
    IF ~Compiles(text) THEN [ok |-> FALSE]
    ELSE [ok |-> TRUE,
          fn |-> [name |-> Ident(HeaderName(text)),
                  args |-> [i \in 1..Len(PositionalItems(HeaderItems(text)))
                               |-> Ident(PositionalItems(HeaderItems(text))[i])],
                  kwonly |-> [i \in 1..Len(KeywordItems(HeaderItems(text)))
                                 |-> Ident(KeywordName(
                                        KeywordItems(HeaderItems(text))[i]))],
                  body |-> text[Len(text)]]]

\* The local function read_from_hdf5 substitutes for a missing source.
NoOp(name) == [name |-> name, args |-> <<>>, kwonly |-> <<>>, body |-> "pass"]

-----------------------------------------------------------------------------
(* Collaborators outside analysis.py *)

\* utils.make_quantity: a bare number is taken to be in `unit`; a quantity
\* is converted to `unit`; an array becomes an array quantity.
make_quantity(x, unit) ==
    CASE x.kind = "scalar" -> Qty(x.num, unit)
      [] x.kind = "quantity" ->
           IF x.unit = unit THEN x
           ELSE IF x.unit = "Myr" /\ unit = "Gyr"
                THEN Qty(x.num \div 1000, unit)
                ELSE Qty(x.num, unit)
      [] x.kind = "array" -> QArr(x.arr, unit)
      [] OTHER -> x

\* utils.collapse_coords: the per-pixel coordinates as one batch, in order.
collapse_coords(coords) == coords

\* The classes the pidgey package exports.
PidgeyBackends == {"AgamaBackend", "GalaBackend", "GalpyBackend"}

NoBackend == [cls |-> "None"]

\* pidgey.get_backend_from: the backend whose potential type this is.
get_backend_from(potential) ==
    CASE potential = "AgamaPotential" -> [cls |-> "AgamaBackend"]
      [] potential = "GalaPotential" -> [cls |-> "GalaBackend"]
      [] potential = "GalpyPotential" -> [cls |-> "GalpyBackend"]
      [] OTHER -> NoBackend

\* Backend.compute_orbit: one orbit per coordinate, in the same order.
compute_orbit(coords, potential, dt, steps, pattern_speed) ==
    [i \in 1..Len(coords) |->
        [start |-> coords[i], potential |-> potential, dt |-> dt,
         steps |-> steps, pattern_speed |-> pattern_speed]]

RECURSIVE Horner(_)
Horner(c) ==
    IF c = <<>> THEN 0 ELSE 7 * Horner(SubSeq(c, 1, Len(c) - 1)) + c[Len(c)]

\* evaluate(orbit).measure of the analysis subtype: a number that depends
\* on every component of the orbit's starting coordinate and on their order.
evaluate(orbit) == [measure |-> Horner(orbit.start)]

\* Calling a constructor function: the initial-condition function returns
\* the coordinate made of its positional arguments; a potential function
\* returns the object its body builds; the no-op returns None.
Call(fn, params) ==
    IF fn.body = "SkyCoord" THEN params
    ELSE IF fn.body = "pass" THEN "None" ELSE fn.body

-----------------------------------------------------------------------------
(* The grid *)

RECURSIVE prod(_)
\* math.prod: 1 for the empty tuple.
prod(shape) == IF shape = <<>> THEN 1 ELSE shape[1] * prod(Tail(shape))

RECURSIVE Unravel(_, _)
\* The k-th (from 0) multi-index of `shape`, last axis fastest.
Unravel(k, shape) ==
    IF shape = <<>> THEN <<>>
    ELSE LET n == Len(shape)
         IN  Append(Unravel(k \div shape[n], SubSeq(shape, 1, n - 1)),
                    k % shape[n])

RECURSIVE UnravelFirstFastest(_, _)
UnravelFirstFastest(k, shape) ==
    IF shape = <<>> THEN <<>>
    ELSE <<k % shape[1]>>
         \o UnravelFirstFastest(k \div shape[1], Tail(shape))

\* The multi-indices in column-major order.
ndindexColumnMajor(shape) ==
    [k \in 1..prod(shape) |-> UnravelFirstFastest(k - 1, shape)]

\* np.ndindex(shape), as the sequence it iterates.
ndindex(shape) == [k \in 1..prod(shape) |-> Unravel(k - 1, shape)]

\* np.zeros(shape).
zeros(shape) ==
    [p \in {ndindex(shape)[k] : k \in 1..prod(shape)} |-> 0]

\* values[name] of the ordered mapping.
Get(values, name) ==
    values[CHOOSE i \in 1..Len(values) : values[i][1] = name][2]

Keys(values) == {values[i][1] : i \in 1..Len(values)}

\* A test that every parameter has an axis, which lets extra axes through.
NamesMismatchIgnoresExtra(values, axis_names) ==
    ~(\A j \in 1..Len(axis_names) :
         \E i \in 1..Len(values) : values[i][1] = axis_names[j])

\* The constructor's test of values against the signature (line 89).
NamesMismatch(values, axis_names) ==
    \/ Len(values) # Len(axis_names)
    \/ ~(\A i \in 1..Len(values) :
            \E j \in 1..Len(axis_names) : values[i][1] = axis_names[j])

Shape(values, axis_names) ==
    [k \in 1..Len(axis_names) |-> Len(Get(values, axis_names[k]))]

\* `x <= 0` used as an if condition: an array of more than one element has
\* no truth value.
LeqZero(x) ==
    IF x.kind \in {"array", "qarray"}
    THEN IF Len(x.arr) # 1 THEN "ambiguous"
         ELSE IF x.arr[1] <= 0 THEN "true" ELSE "false"
    ELSE IF x.num <= 0 THEN "true" ELSE "false"

\* The backend named by a string argument (lines 106-114).
BackendByName(backend) ==
    IF backend.kind # "str" THEN [err |-> FALSE, backend |-> backend.obj]
    ELSE CASE backend.name = "agama" ->
                [err |-> FALSE, backend |-> [cls |-> "AgamaBackend"]]
           [] backend.name = "gala" ->
                [err |-> FALSE, backend |-> [cls |-> "GalaBackend"]]
           [] backend.name = "galpy" ->
                [err |-> FALSE, backend |-> [cls |-> "GalpyBackend"]]
           [] OTHER -> [err |-> TRUE, backend |-> NoBackend]

\* The chunksize tests with the upper one off by one.
ChunksizeAcceptsSize(chunksize, size) ==
    IF chunksize <= 0 THEN "chunksize must be greater than 0"
    ELSE IF chunksize > size
         THEN "chunksize must be less than total number of starting coordinates"
         ELSE "none"

\* The chunksize tests with the lower one off by one.
ChunksizeAcceptsZero(chunksize, size) ==
    IF chunksize < 0 THEN "chunksize must be greater than 0"
    ELSE IF chunksize >= size
         THEN "chunksize must be less than total number of starting coordinates"
         ELSE "none"

\* The two chunksize tests (lines 119-122): the error raised, or "none".
ChunksizeCheck(chunksize, size) ==
    IF chunksize <= 0 THEN "chunksize must be greater than 0"
    ELSE IF chunksize >= size
         THEN "chunksize must be less than total number of starting coordinates"
         ELSE "none"

\* AnalysisBase.__init__ up to the allocation of the image: the attributes
\* assigned and the error raised ("none" when it reaches line 125).
Constructor(ic, values, potf, dt, steps, ps, backend, chunksize) ==
    LET a1 == [ic_function |-> ic, axis_names |-> ic.args, values |-> values]
    IN
    IF NamesMismatch(values, ic.args)
    THEN [self |-> a1,
          err |-> "values and ic_function signature do not correspond"]
    ELSE
    LET shape == Shape(values, ic.args)
        a2 == a1 @@ [shape |-> shape, size |-> prod(shape),
                     potential_function |-> potf,
                     potential |-> Call(potf, <<>>),
                     dt |-> make_quantity(dt, "Gyr")]
    IN
    IF LeqZero(a2.dt) = "ambiguous"
    THEN [self |-> a2, err |-> "truth value of an array is ambiguous"]
    ELSE IF LeqZero(a2.dt) = "true"
    THEN [self |-> a2, err |-> "dt must be greater than 0"]
    ELSE
    LET a3 == a2 @@ [steps |-> steps]
    IN
    IF LeqZero(steps) = "ambiguous"
    THEN [self |-> a3, err |-> "truth value of an array is ambiguous"]
    ELSE IF LeqZero(steps) = "true"
    THEN [self |-> a3, err |-> "steps must be greater than 0"]
    ELSE
    LET a4 == a3 @@ [pattern_speed |-> make_quantity(ps, "km/s/kpc")]
        named == BackendByName(backend)
    IN
    IF named.err
    THEN [self |-> a4, err |-> "Unrecognized backend"]
    ELSE
    LET resolved == IF named.backend # NoBackend THEN named.backend
                    ELSE get_backend_from(a4.potential)
        a5 == a4 @@ [backend |-> resolved]
    IN
    IF resolved = NoBackend
    THEN [self |-> a5, err |-> "Unrecognized potential"]
    ELSE IF ChunksizeCheck(chunksize, a5.size) # "none"
    THEN [self |-> a5, err |-> ChunksizeCheck(chunksize, a5.size)]
    ELSE [self |-> a5 @@ [image |-> zeros(shape)], err |-> "none"]

Min(a, b) == IF a <= b THEN a ELSE b

\* Batches that drop a short final batch.
chunkedStrict(seq, n) ==
    [b \in 1..(Len(seq) \div n) |-> SubSeq(seq, (b - 1) * n + 1, b * n)]

\* more_itertools.chunked(seq, n), as the sequence of lists it yields.
chunked(seq, n) ==
    [b \in 1..((Len(seq) + n - 1) \div n) |->
        SubSeq(seq, (b - 1) * n + 1, Min(b * n, Len(seq)))]

\* The arguments in the order the axes were supplied in.
ParamsInSuppliedOrder(values, axis_names, pixel) ==
    [k \in 1..Min(Len(pixel), Len(axis_names)) |->
        LET j == CHOOSE j \in 1..Len(axis_names) :
                     axis_names[j] = values[k][1]
        IN  values[k][2][pixel[j] + 1]]

\* The positional arguments of ic_function for a pixel (line 144).
Params(values, axis_names, pixel) ==
    [k \in 1..Min(Len(pixel), Len(axis_names)) |->
        Get(values, axis_names[k])[pixel[k] + 1]]

-----------------------------------------------------------------------------
(* What the caller may pass *)

ICFunctions ==
    {[name |-> "g", args |-> <<"x", "y">>, kwonly |-> <<>>,
      body |-> "SkyCoord"],
     [name |-> "f", args |-> <<"x">>, kwonly |-> <<>>, body |-> "SkyCoord"],
     [name |-> "ic", args |-> <<"dt", "x">>, kwonly |-> <<>>,
      body |-> "SkyCoord"],
     [name |-> "k", args |-> <<"x">>, kwonly |-> <<"y">>,
      body |-> "SkyCoord"],
     [name |-> "d", args |-> <<>>, kwonly |-> <<>>, body |-> "SkyCoord"]}

AxisNames == {"x", "y", "dt"}

\* The tick values of an axis of n ticks; no two axes share a value.
Tick(name, n) ==
    [i \in 1..n |->
        (CASE name = "x" -> 10 [] name = "y" -> 20 [] OTHER -> 30) + i]

KeySeqs ==
    {<<>>} \cup {<<a>> : a \in AxisNames}
    \cup {ks \in AxisNames \X AxisNames : ks[1] # ks[2]}

ValueMaps ==
    UNION {{[i \in 1..Len(ks) |-> <<ks[i], Tick(ks[i], ln[i])>>] :
               ln \in [1..Len(ks) -> 0..MaxLen]} : ks \in KeySeqs}

PotFunction(name, body) ==
    [name |-> name, args |-> <<>>, kwonly |-> <<>>, body |-> body]

BackendArg(kind, name, cls) ==
    [kind |-> kind, name |-> name, obj |-> [cls |-> cls]]

RunArg(potf, dt, steps, ps, backend) ==
    [potf |-> potf, dt |-> dt, steps |-> steps, ps |-> ps,
     backend |-> backend]

\* The remaining constructor arguments: valid ones, and one of each kind the
\* constructor rejects.
RunArgs ==
    {RunArg(PotFunction("pot", "GalpyPotential"), Num(2), Num(5), Num(0),
            BackendArg("none", "", "None")),
     RunArg(PotFunction("f", "GalaPotential"), Qty(3000, "Myr"), Num(5),
            Qty(1, "km/s/kpc"), BackendArg("str", "gala", "None")),
     RunArg(PotFunction("pot", "UnknownPotential"), Num(2), Num(5), Num(0),
            BackendArg("instance", "", "MyBackend")),
     RunArg(PotFunction("pot", "GalpyPotential"), Num(0), Num(5), Num(0),
            BackendArg("none", "", "None")),
     RunArg(PotFunction("pot", "GalpyPotential"), Num(2), Num(0), Num(0),
            BackendArg("none", "", "None")),
     RunArg(PotFunction("pot", "GalpyPotential"), Num(2), Num(5), Num(0),
            BackendArg("str", "bogus", "None")),
     RunArg(PotFunction("pot", "UnknownPotential"), Num(2), Num(5), Num(0),
            BackendArg("none", "", "None"))}

ChunkSizes == -1..(MaxLen * MaxLen + 1)

-----------------------------------------------------------------------------
(* State *)

VARIABLES
    pc,         \* where the constructor is: idle, integrate, evaluate,
                \* done (it returned) or error (it raised)
    self,       \* the instance's attributes
    chunksize,  \* the constructor's chunksize argument
    cursor,     \* how many pixels the chunked iterator has handed out
    pending,    \* zip(pixels, orbits) of the current batch, not yet consumed
    err,        \* the exception raised, "none" if none
    log,        \* calls made and cells written, in order
    prev,       \* the image of an earlier construction of the same analysis,
                \* and whether that one used the same chunksize
    file,       \* the HDF5 container save() wrote
    loaded      \* what read_from_hdf5 returned or raised

vars == <<pc, self, chunksize, cursor, pending, err, log, prev, file, loaded>>

Event(ev, pixels) == [ev |-> ev, pixels |-> pixels]

NoFile == [exists |-> FALSE]

NotLoaded == [status |-> "not loaded"]

Init ==
    /\ pc = "idle"
    /\ self = <<>>
    /\ chunksize = 0
    /\ cursor = 0
    /\ pending = <<>>
    /\ err = "none"
    /\ log = <<>>
    /\ prev = [set |-> FALSE]
    /\ file = NoFile
    /\ loaded = NotLoaded

\* The state a call of the constructor leaves when it reaches line 126 or
\* raises before it.
Enter(r, c) ==
    /\ self' = r.self
    /\ err' = r.err
    /\ chunksize' = c
    /\ cursor' = 0
    /\ pending' = <<>>
    /\ pc' = IF r.err = "none" THEN "integrate" ELSE "error"
    /\ log' = IF "potential" \in DOMAIN r.self
              THEN <<Event("potential_function", <<>>)>> ELSE <<>>

\* AnalysisBase(ic, values, potential_function=..., dt=..., steps=..., ...)
Construct ==
    /\ pc = "idle"
    /\ \E ic \in ICFunctions, values \in ValueMaps, a \in RunArgs,
          c \in ChunkSizes :
          Enter(Constructor(ic, values, a.potf, a.dt, a.steps, a.ps,
                            a.backend, c), c)
    /\ UNCHANGED <<prev, file, loaded>>

\* The same analysis constructed again, with a batch size of the caller's
\* choice; the first image is kept for comparison.
Reconstruct ==
    /\ pc = "done"
    /\ ~prev.set
    /\ ~file.exists
    /\ \E c \in ChunkSizes :
          /\ Enter(Constructor(self.ic_function, self.values,
                               self.potential_function, self.dt, self.steps,
                               self.pattern_speed,
                               [kind |-> "instance", name |-> "",
                                obj |-> self.backend], c), c)
          /\ prev' = [set |-> TRUE, image |-> self.image,
                      samechunksize |-> (c = chunksize)]
    /\ UNCHANGED <<file, loaded>>

\* The batches of the construction under way.
Batches == chunked(ndindex(self.shape), chunksize)

\* Where the loops of _construct_image stand once the current batch has
\* `rest` left to evaluate and `n` batches have been taken.
LoopPosition(rest, n) ==
    IF rest # <<>> THEN "evaluate"
    ELSE IF n < Len(Batches) THEN "integrate" ELSE "done"

\* The calls of lines 142-155 for a batch, as logged.
BatchCalls(pixels) ==
    [i \in 1..Len(pixels) |-> Event("ic_function", <<pixels[i]>>)]
    \o <<Event("compute_orbit", pixels)>>

\* One pass of the outer loop up to the backend's return (lines 136-155).
IntegrateBatch ==
    /\ pc = "integrate"
    /\ LET pixels == Batches[cursor + 1]
           coords == collapse_coords(
                        [i \in 1..Len(pixels) |->
                            Call(self.ic_function,
                                 Params(self.values, self.axis_names,
                                        pixels[i]))])
           orbits == compute_orbit(coords, self.potential, self.dt,
                                   self.steps, self.pattern_speed)
           zipped == [i \in 1..Min(Len(pixels), Len(orbits)) |->
                         <<pixels[i], orbits[i]>>]
       IN  /\ pending' = zipped
           /\ log' = log \o BatchCalls(pixels)
           /\ pc' = LoopPosition(zipped, cursor + 1)
    /\ cursor' = cursor + 1
    /\ UNCHANGED <<self, chunksize, err, prev, file, loaded>>

\* The backend raises on the batch: nothing catches it (lines 149-155).
BackendRaises ==
    /\ pc = "integrate"
    /\ log' = log \o BatchCalls(Batches[cursor + 1])
              \o <<Event("raise", Batches[cursor + 1])>>
    /\ pc' = "error"
    /\ err' = "backend failure"
    /\ UNCHANGED <<self, chunksize, cursor, pending, prev, file, loaded>>

\* One pass of the inner loop (lines 156-163).
EvaluateOrbit ==
    /\ pc = "evaluate"
    /\ LET pixel == pending[1][1]
           orbit == pending[1][2]
       IN  /\ self' = [self EXCEPT
                         !.image = [@ EXCEPT ![pixel] = evaluate(orbit).measure]]
           /\ log' = log \o <<Event("evaluate", <<pixel>>),
                              Event("write", <<pixel>>)>>
    /\ pending' = Tail(pending)
    /\ pc' = LoopPosition(Tail(pending), cursor)
    /\ UNCHANGED <<chunksize, cursor, err, prev, file, loaded>>

\* A failing evaluation that is swallowed: the pixel is skipped.
EvaluateSkips ==
    /\ pc = "evaluate"
    /\ log' = log \o <<Event("evaluate", <<pending[1][1]>>),
                       Event("raise", <<pending[1][1]>>)>>
    /\ pending' = Tail(pending)
    /\ pc' = LoopPosition(Tail(pending), cursor)
    /\ UNCHANGED <<self, chunksize, cursor, err, prev, file, loaded>>

\* evaluate raises on the orbit: nothing catches it (line 163).
EvaluateRaises ==
    /\ pc = "evaluate"
    /\ log' = log \o <<Event("evaluate", <<pending[1][1]>>),
                       Event("raise", <<pending[1][1]>>)>>
    /\ pc' = "error"
    /\ err' = "evaluate failure"
    /\ UNCHANGED <<self, chunksize, cursor, pending, prev, file, loaded>>

-----------------------------------------------------------------------------
(* Persistence *)

\* The name of the analysis class, which names the dataset.
ClassName == "TessellationAnalysis"

\* The metadata save() writes: the six fixed keys (lines 185-196), then one
\* key per axis, a later write to the same key replacing the earlier one
\* (lines 197-198).
SavedAttrs(s) ==
    [name \in Keys(s.values) |-> Arr(Get(s.values, name))]
    @@ [icfunc |-> Bytes(RenamedSource(s.ic_function, "ic_function")),
        potfunc |-> Bytes(RenamedSource(s.potential_function,
                                        "potential_function")),
        dt |-> Num(s.dt.num),
        steps |-> s.steps,
        pattern_speed |-> Num(s.pattern_speed.num),
        backend |-> Bytes(<<s.backend.cls>>)]

\* The container save() leaves at the path.
Container(s) ==
    [exists |-> TRUE, dataset |-> ClassName, data |-> s.image,
     attrs |-> SavedAttrs(s)]

\* x.save(path)
Save ==
    /\ pc = "done"
    /\ ~file.exists
    /\ file' = Container(self)
    /\ UNCHANGED <<pc, self, chunksize, cursor, pending, err, log, prev,
                   loaded>>

\* Someone removes the source of a constructor function from the container.
RemoveSource ==
    /\ file.exists
    /\ loaded = NotLoaded
    /\ \E key \in {"icfunc", "potfunc"} \cap DOMAIN file.attrs :
          file' = [file EXCEPT
                     !.attrs = [a \in DOMAIN file.attrs \ {key} |->
                                   file.attrs[a]]]
    /\ UNCHANGED <<pc, self, chunksize, cursor, pending, err, log, prev,
                   loaded>>

\* attr.tobytes().decode("utf8"): the text of a blob; the bytes of a numeric
\* array are no source text.
Decode(attr) == IF attr.kind = "bytes" THEN attr.text ELSE <<"?">>

\* The function read_from_hdf5 rebuilds from a metadata key (lines 214-223
\* and 228-237).
LoadFunction(attrs, key, placeholder) ==
    IF key \in DOMAIN attrs
    THEN LET namespace == Exec(Decode(attrs[key]))
         IN  IF ~namespace.ok
             THEN [err |-> "SyntaxError", warnings |-> 0,
                   fn |-> NoOp(placeholder)]
             ELSE IF namespace.fn.name # placeholder
             THEN [err |-> "KeyError", warnings |-> 0,
                   fn |-> NoOp(placeholder)]
             ELSE [err |-> "none", warnings |-> 0, fn |-> namespace.fn]
    ELSE [err |-> "none", warnings |-> 1, fn |-> NoOp(placeholder)]

Raised(e, w) == [status |-> "raised", err |-> e, warnings |-> w]

\* cls.read_from_hdf5(path): the instance returned, or the exception.
read_from_hdf5(f) ==
    LET attrs == f.attrs
        ic == LoadFunction(attrs, "icfunc", "ic_function")
        axis_names == ic.fn.args
    IN
    IF ic.err # "none" THEN Raised(ic.err, ic.warnings)
    ELSE IF \E k \in 1..Len(axis_names) : axis_names[k] \notin DOMAIN attrs
    THEN Raised("KeyError", ic.warnings)
    ELSE
    LET values == [k \in 1..Len(axis_names) |->
                      <<axis_names[k], attrs[axis_names[k]].arr>>]
        pot == LoadFunction(attrs, "potfunc", "potential_function")
        w == ic.warnings + pot.warnings
        backend_cls == Decode(attrs.backend)[1]
    IN
    IF pot.err # "none" THEN Raised(pot.err, w)
    ELSE IF backend_cls \notin PidgeyBackends THEN Raised("AttributeError", w)
    ELSE
    LET r == Constructor(ic.fn, values, pot.fn, attrs.dt, attrs.steps,
                         attrs.pattern_speed,
                         BackendArg("instance", "", backend_cls), 1)
    IN
    IF r.err # "none" THEN Raised(r.err, w)
    ELSE [status |-> "ok", err |-> "none", warnings |-> w,
          self |-> [r.self EXCEPT !.image = f.data]]

\* AnalysisClass.read_from_hdf5(path)
Load ==
    /\ file.exists
    /\ loaded = NotLoaded
    /\ loaded' = read_from_hdf5(file)
    /\ UNCHANGED <<pc, self, chunksize, cursor, pending, err, log, prev,
                   file>>

-----------------------------------------------------------------------------

Next ==
    \/ Construct
    \/ Reconstruct
    \/ IntegrateBatch
    \/ BackendRaises
    \/ EvaluateOrbit
    \/ EvaluateRaises
    \/ Save
    \/ RemoveSource
    \/ Load

Spec == Init /\ [][Next]_vars

-----------------------------------------------------------------------------
(* Vocabulary of the properties, defined without the operators above *)

\* The multi-indices of a grid of the given shape.
IndexSet(shape) ==
    {p \in [1..Len(shape) -> 0..MaxLen] :
        \A k \in 1..Len(shape) : p[k] < shape[k]}

RECURSIVE Rank(_, _)
\* The place of a multi-index in row-major order: the last axis has
\* stride 1, each other axis the product of the lengths after it.
Rank(p, shape) ==
    IF p = <<>> THEN 0
    ELSE Rank(SubSeq(p, 1, Len(p) - 1), SubSeq(shape, 1, Len(shape) - 1))
             * shape[Len(shape)] + p[Len(p)]

RowMajor(shape) ==
    [r \in 1..Cardinality(IndexSet(shape)) |->
        CHOOSE p \in IndexSet(shape) : Rank(p, shape) = r - 1]

\* The measure the claim expects at a pixel: evaluate applied to the
\* backend's orbit for ic_function called with one tick per declared
\* parameter, in declared order.
MeasureAt(s, p) ==
    evaluate(compute_orbit(
                 <<Call(s.ic_function,
                        [k \in 1..Len(s.ic_function.args) |->
                            Get(s.values, s.ic_function.args[k])[p[k] + 1]])>>,
                 s.potential, s.dt, s.steps, s.pattern_speed)[1]).measure

IsWrite(e) == e.ev = "write"

IsEvaluate(e) == e.ev = "evaluate"

IsBackendCall(e) == e.ev = "compute_orbit"

PixelOf(events) == [i \in 1..Len(events) |-> events[i].pixels[1]]

WritesBefore(i) == Cardinality({j \in 1..(i - 1) : IsWrite(log[j])})

\* The index in the log of the b-th backend call.
BackendCallAt(b) ==
    CHOOSE i \in 1..Len(log) :
        /\ IsBackendCall(log[i])
        /\ Cardinality({j \in 1..i : IsBackendCall(log[j])}) = b

NamesError == "values and ic_function signature do not correspond"

ChunksizeErrors ==
    {"chunksize must be greater than 0",
     "chunksize must be less than total number of starting coordinates"}

Constructed == pc # "idle"

\* The constructor got as far as the chunksize tests.
ReachedChunksizeCheck ==
    /\ Constructed
    /\ "backend" \in DOMAIN self
    /\ err # "Unrecognized potential"

-----------------------------------------------------------------------------
(* Properties *)

\* The axis values recovered by a load, looked up by axis name, are the
\* original ones.
SameRunAs(l, s) ==
    /\ l.image = s.image
    /\ l.dt = s.dt
    /\ l.steps = s.steps
    /\ l.pattern_speed = s.pattern_speed
    /\ l.axis_names = s.axis_names
    /\ Keys(l.values) = Keys(s.values)
    /\ \A name \in Keys(s.values) : Get(l.values, name) = Get(s.values, name)

\* C1: read_from_hdf5 applied to the container x.save wrote returns an
\* engine with x's image, dt, steps, pattern_speed, axis names and per-axis
\* values, for every constructed engine x.
C1_SaveLoadRoundTrip ==
    (loaded # NotLoaded /\ file = Container(self))
        => (loaded.status = "ok" /\ SameRunAs(loaded.self, self))

\* C2: once a construction has completed, every pixel of the grid holds the
\* measure of the orbit of ic_function called with values[axis][pixel[k]]
\* for the axes in declared parameter order; on a one-axis grid (where the
\* measure is the coordinate's only value) the image is the axis's values
\* in order.
C2_ImageHoldsMeasures ==
    pc = "done" =>
        /\ DOMAIN self.image = IndexSet(self.shape)
        /\ \A p \in IndexSet(self.shape) : self.image[p] = MeasureAt(self, p)
        /\ Len(self.shape) = 1 =>
              \A i \in 1..self.shape[1] :
                  self.image[<<i - 1>>]
                      = Get(self.values, self.axis_names[1])[i]

\* C2 witness: a completed 2-axis construction whose axes were supplied in
\* the opposite of the declared order.
C2_Witness ==
    /\ pc = "done"
    /\ self.axis_names = <<"x", "y">>
    /\ self.values[1][1] = "y"
    /\ self.shape = <<2, 3>>

\* C3: two constructions of the same analysis that differ at most in their
\* (valid) chunksize end with identical images.
C3_ImageIndependentOfChunksize ==
    (pc = "done" /\ prev.set) => self.image = prev.image

\* C3 witness: a second construction has completed with another chunksize,
\* one that does not divide the grid size.
C3_Witness ==
    /\ pc = "done"
    /\ prev.set
    /\ ~prev.samechunksize
    /\ self.size % chunksize # 0

\* C4: a constructor that reaches the chunksize tests passes them exactly
\* when 0 < chunksize < size; otherwise it raises one of the two chunksize
\* errors with no image allocated and no coordinate built, orbit integrated
\* or orbit evaluated.
C4_ChunksizeRange ==
    ReachedChunksizeCheck =>
        /\ (0 < chunksize /\ chunksize < self.size) <=> "image" \in DOMAIN self
        /\ (0 < chunksize /\ chunksize < self.size) <=>
              err \notin ChunksizeErrors
        /\ chunksize <= 0 => err = "chunksize must be greater than 0"
        /\ err \in ChunksizeErrors =>
              /\ pc = "error"
              /\ "image" \notin DOMAIN self
              /\ log = <<Event("potential_function", <<>>)>>

\* C4 witness: the boundary chunksize = size was rejected on a grid of
\* several pixels.
C4_Witness ==
    /\ pc = "error"
    /\ err \in ChunksizeErrors
    /\ self.size >= 2
    /\ chunksize = self.size

\* Every parameter name the function declares, keyword-only ones included.
DeclaredNames(fn) ==
    {fn.args[i] : i \in 1..Len(fn.args)}
    \cup {fn.kwonly[i] : i \in 1..Len(fn.kwonly)}

PositionalNames(fn) == {fn.args[i] : i \in 1..Len(fn.args)}

\* The constructor stopped at the names test: nothing was called, nothing
\* past the axis names was assigned.
StoppedAtNames ==
    /\ pc = "error"
    /\ err = NamesError
    /\ log = <<>>
    /\ DOMAIN self = {"ic_function", "axis_names", "values"}

\* C5 as claimed, in its weakest reading: axis names that are not exactly
\* ic_function's declared parameter names make the constructor fail, with
\* no image created.
C5_DeclaredNamesMismatchFails ==
    (Constructed /\ Keys(self.values) # DeclaredNames(self.ic_function))
        => (pc = "error" /\ "image" \notin DOMAIN self)

\* C5 as amended: the constructor fails at the names test exactly when the
\* axis names are not the function's positional parameter names (the args of
\* inspect.getfullargspec), whatever order they were supplied in; it then
\* has called nothing and allocated nothing.
C5_PositionalNamesMismatchFails ==
    Constructed =>
        /\ (Keys(self.values) # PositionalNames(self.ic_function))
              <=> err = NamesError
        /\ err = NamesError => StoppedAtNames

\* C5 witness: rejected axis names of the right count, one name differing.
C5_Witness ==
    /\ StoppedAtNames
    /\ Len(self.values) = Len(self.axis_names)
    /\ Len(self.values) = 2
    /\ Keys(self.values) \cap PositionalNames(self.ic_function) # {}

\* The stored source of a constructor, when the container has it, compiles
\* and binds the placeholder.
SourceUsable(attrs, key, placeholder) ==
    key \in DOMAIN attrs =>
        /\ attrs[key].kind = "bytes"
        /\ Exec(attrs[key].text).ok
        /\ Exec(attrs[key].text).fn.name = placeholder

\* C6: loading a container that lacks icfunc and/or potfunc (and is
\* otherwise loadable) returns an engine, with a warning per missing
\* source, an empty axis set when icfunc is absent, and the stored image.
C6_LoadWithoutSourceSucceeds ==
    (/\ loaded # NotLoaded
     /\ {"icfunc", "potfunc"} \ DOMAIN file.attrs # {}
     /\ SourceUsable(file.attrs, "icfunc", "ic_function")
     /\ SourceUsable(file.attrs, "potfunc", "potential_function")
     /\ file.attrs.backend.text[1] \in PidgeyBackends
     /\ file.attrs.dt.kind = "scalar")
        => /\ loaded.status = "ok"
           /\ loaded.warnings = Cardinality({"icfunc", "potfunc"}
                                                \ DOMAIN file.attrs)
           /\ loaded.self.image = file.data
           /\ "icfunc" \notin DOMAIN file.attrs
                 => loaded.self.axis_names = <<>>


\* C7: no pixel is ever written twice; when a construction has completed,
\* the cells were written, and evaluate was called, once per pixel in
\* row-major order; the backend was called once per batch, ceil(size /
\* chunksize) times, the b-th time with pixels (b-1)*chunksize+1 ..
\* min(b*chunksize, size) of that order; and the b-th call came after
\* exactly the writes of the b-1 batches before it.
C7_EachPixelOnceInRowMajorBatches ==
    /\ \A i, j \in 1..Len(log) :
          (i # j /\ IsWrite(log[i]) /\ IsWrite(log[j]))
              => log[i].pixels # log[j].pixels
    /\ pc = "done" =>
          LET order == RowMajor(self.shape)
              n == Len(order)
              batches == (n + chunksize - 1) \div chunksize
              calls == SelectSeq(log, IsBackendCall)
          IN  /\ n = self.size
              /\ PixelOf(SelectSeq(log, IsWrite)) = order
              /\ PixelOf(SelectSeq(log, IsEvaluate)) = order
              /\ Len(calls) = batches
              /\ \A b \in 1..batches :
                    /\ calls[b].pixels
                          = SubSeq(order, (b - 1) * chunksize + 1,
                                   IF b * chunksize <= n THEN b * chunksize
                                   ELSE n)
                    /\ WritesBefore(BackendCallAt(b)) = (b - 1) * chunksize

\* C7 witness: a completed construction over a grid with two axes of
\* several ticks each, whose final batch is short.
C7_Witness ==
    /\ pc = "done"
    /\ Len(self.shape) = 2
    /\ self.shape[1] >= 2
    /\ self.shape[2] >= 2
    /\ chunksize >= 2
    /\ self.size % chunksize # 0

\* The image at an abort: the measures of the pixels whose row-major rank is
\* below `stop`, zero elsewhere.
FilledBelow(stop) ==
    /\ DOMAIN self.image = IndexSet(self.shape)
    /\ \A p \in IndexSet(self.shape) :
          self.image[p] = IF Rank(p, self.shape) < stop
                          THEN MeasureAt(self, p) ELSE 0

\* C8: a failure of the backend or of evaluate ends the construction: it is
\* the last thing that happens, the constructor has raised it, and the
\* image holds the measures of exactly the pixels before the failing batch
\* (backend) or before the failing pixel (evaluate), zero elsewhere.
C8_FailurePropagatesPrefixFilled ==
    /\ \A i \in 1..(Len(log) - 1) : log[i].ev # "raise"
    /\ (log # <<>> /\ log[Len(log)].ev = "raise") =>
          /\ pc = "error"
          /\ err \in {"backend failure", "evaluate failure"}
    /\ err \in {"backend failure", "evaluate failure"} =>
          /\ pc = "error"
          /\ log[Len(log)].ev = "raise"
          /\ log[Len(log) - 1].ev
                = (IF err = "backend failure" THEN "compute_orbit"
                   ELSE "evaluate")
          /\ log[Len(log) - 1].pixels = log[Len(log)].pixels
          /\ FilledBelow(Rank(log[Len(log)].pixels[1], self.shape))

\* C8 witness: evaluate failed in the middle of the second batch.
C8_Witness ==
    /\ pc = "error"
    /\ err = "evaluate failure"
    /\ cursor = 2
    /\ Len(pending) >= 2
    /\ Len(pending) < chunksize

\* C8 witness of the backend case, kept for reference: the backend failed on
\* a batch after the first.
BackendFailedLater ==
    /\ pc = "error"
    /\ err = "backend failure"
    /\ cursor >= 1

\* C9: the text save() stores for each constructor function, executed,
\* binds the placeholder name to a function with the original's parameter
\* names; the first occurrence of the function's name in its source is the
\* name in the def header (index 5, after "def ").
C9_RenameBindsPlaceholder ==
    (file.exists /\ file = Container(self)) =>
        /\ Find(GetSource(self.ic_function), Chars(self.ic_function.name)) = 5
        /\ Find(GetSource(self.potential_function),
                Chars(self.potential_function.name)) = 5
        /\ Exec(file.attrs.potfunc.text).ok
        /\ Exec(file.attrs.potfunc.text).fn
              = [self.potential_function EXCEPT !.name = "potential_function"]
        /\ "icfunc" \notin Keys(self.values) =>
              /\ Exec(file.attrs.icfunc.text).ok
              /\ Exec(file.attrs.icfunc.text).fn
                    = [self.ic_function EXCEPT !.name = "ic_function"]

ConstructorErrors ==
    {NamesError, "truth value of an array is ambiguous",
     "dt must be greater than 0", "steps must be greater than 0",
     "Unrecognized backend", "Unrecognized potential"}
    \cup ChunksizeErrors

\* C10: an engine whose constructor got past validation (compute mode) or
\* that read_from_hdf5 returned (blank mode, chunksize 1) has size >= 2; a
\* grid of size 0 or 1, the zero-axis grid included, is rejected by the
\* constructor whatever the chunksize, by the chunksize test if by nothing
\* earlier; a container with no icfunc, whose grid has no axes, is never
\* loaded.
C10_SizeAtLeastTwo ==
    /\ (Constructed /\ "image" \in DOMAIN self) => self.size >= 2
    /\ loaded.status = "ok" =>
          /\ loaded.self.size >= 2
          /\ loaded.self.axis_names # <<>>
    /\ (Constructed /\ "size" \in DOMAIN self /\ self.size < 2) =>
          /\ pc = "error"
          /\ err \in ConstructorErrors
          /\ ReachedChunksizeCheck => err \in ChunksizeErrors
    /\ (loaded # NotLoaded /\ "icfunc" \notin DOMAIN file.attrs) =>
          loaded.status = "raised"

\* C10 witness: a zero-axis grid (shape (), size 1) was rejected at the
\* chunksize test with chunksize 1.
C10_Witness ==
    /\ pc = "error"
    /\ self.axis_names = <<>>
    /\ "size" \in DOMAIN self
    /\ self.size = 1
    /\ chunksize = 1
    /\ err \in ChunksizeErrors

\* C10 witness of the blank mode, kept for reference: a load of a container
\* without icfunc raised the chunksize error.
BlankModeRejected ==
    /\ loaded # NotLoaded
    /\ "icfunc" \notin DOMAIN file.attrs
    /\ loaded.status = "raised"
    /\ loaded.err \in ChunksizeErrors

====
